---- MODULE Spec2Model ----
(***************************************************************************)
(* The chat relay of netlify-chat: the /chat endpoint (POST), the /threads *)
(* endpoint (handler), the storage initialisation they share, the model    *)
(* resolution of lib/models.ts and the stream relay between the agent's    *)
(* textStream and the response stream.                                     *)
(*                                                                         *)
(* Strings are sequences of one-character strings, so that prefix tests    *)
(* and concatenation are computed, not assumed.                            *)
(***************************************************************************)
EXTENDS Integers, Sequences, FiniteSets, TLC

(* ------------------------------ bounds --------------------------------- *)

\* Number of HTTP requests a behaviour handles.
NumReqs == 3

\* Largest number of text fragments one upstream token stream delivers.
MaxFragments == 2

\* Number of times the user submits the form.
MaxSubmits == 2

\* Largest number of chunk frames in a response body the client reads.
MaxChunks == 1

(* ------------------------------ values --------------------------------- *)

\* undefined / null / absent, for a field that holds a name
NoValue == "undefined"

\* undefined, for a field that holds text
Undefined == <<"undefined">>

\* undefined, for a field that holds a thread identifier
NoThread == -1

Reqs == 1..NumReqs

\* The invocations of the client's handleSubmit.
Submits == 1..MaxSubmits

\* Thread identifiers the Session Store can assign, in order of creation.
ThreadIds == 1..NumReqs

\* A thread identifier no createThread has returned.
GhostThread == 0

Hello == <<"h", "e", "l", "l", "o">>

EmptyString == <<>>

\* The text fragments of the Completion Provider's reply, in order: the
\* reply alternates between two fragments of different length.
FragmentAt(n) == IF n % 2 = 1 THEN <<"a">> ELSE <<"b", "c">>

Gpt4oMini == <<"g", "p", "t", "-", "4", "o", "-", "m", "i", "n", "i">>

Claude3 == <<"c", "l", "a", "u", "d", "e", "-", "3">>

Llama == <<"l", "l", "a", "m", "a">>

DefaultUser == "default-user"

(* --------------------------- string helpers ---------------------------- *)

\* String.prototype.startsWith
StartsWith(s, p) ==
  /\ Len(p) <= Len(s)
  /\ SubSeq(s, 1, Len(p)) = p

\* String.prototype.includes
Includes(s, sub) ==
  \E i \in 1..(Len(s) + 1) :
    /\ i + Len(sub) - 1 <= Len(s)
    /\ SubSeq(s, i, i + Len(sub) - 1) = sub

RECURSIVE Concat(_)
\* The concatenation, in order, of a sequence of strings.
Concat(ss) == IF ss = <<>> THEN <<>> ELSE Head(ss) \o Concat(Tail(ss))

IsPrefix(p, s) ==
  /\ Len(p) <= Len(s)
  /\ SubSeq(s, 1, Len(p)) = p

(* --------------------- lib/models.ts: resolution ----------------------- *)

VARIABLES
  env,                 \* process.env: the names of the variables that are set
  aiGateway,           \* process.env.AI_GATEWAY, by what JSON.parse makes of it
  gatewayConfigCache,  \* models.ts gatewayConfigCache
  providerCache,       \* families whose provider client has been constructed
  constructed          \* per family, the number of provider clients constructed

Families == {"openai", "anthropic", "google"}

NoTokenVars == [f \in Families |-> NoValue]

\* AI_GATEWAY is absent, or text JSON.parse rejects, or JSON whose providers
\* entry names the token and url variables of some families.
GatewayAbsent == [kind |-> "absent", tokenVar |-> NoTokenVars, urlVar |-> NoTokenVars]

GatewayGarbage == [kind |-> "garbage", tokenVar |-> NoTokenVars, urlVar |-> NoTokenVars]

GatewayCustom ==
  [kind |-> "json",
   tokenVar |-> [NoTokenVars EXCEPT !["openai"] = "CUSTOM_OPENAI_KEY"],
   urlVar |-> [NoTokenVars EXCEPT !["openai"] = "CUSTOM_OPENAI_URL"]]

CacheUnset == [kind |-> "unset", tokenVar |-> NoTokenVars, urlVar |-> NoTokenVars]

CacheNull == [kind |-> "null", tokenVar |-> NoTokenVars, urlVar |-> NoTokenVars]

getRawEnv(e, key) == IF key = NoValue THEN FALSE ELSE key \in e

getDefaultTokenKey(provider) ==
  CASE provider = "openai" -> "OPENAI_API_KEY"
    [] provider = "anthropic" -> "ANTHROPIC_API_KEY"
    [] provider = "google" -> "GEMINI_API_KEY"

getDefaultUrlKey(provider) ==
  CASE provider = "openai" -> "OPENAI_BASE_URL"
    [] provider = "anthropic" -> "ANTHROPIC_BASE_URL"
    [] provider = "google" -> "GOOGLE_GEMINI_BASE_URL"

\* The value getGatewayConfig() returns and leaves in gatewayConfigCache.
getGatewayConfig(gwCache, gw) ==
  IF gwCache.kind # "unset" THEN gwCache
  ELSE IF gw.kind = "absent" THEN CacheNull
  ELSE IF gw.kind = "garbage" THEN CacheNull
  ELSE [kind |-> "parsed", tokenVar |-> gw.tokenVar, urlVar |-> gw.urlVar]

\* A getGatewayEnvKey that returns the default names whatever AI_GATEWAY holds.
getGatewayEnvKeyDefault(gwCache, gw, provider, field) ==
  IF field = "token" THEN getDefaultTokenKey(provider) ELSE getDefaultUrlKey(provider)

\* getGatewayEnvKey(provider, field)
getGatewayEnvKey(gwCache, gw, provider, field) ==
  LET gatewayConfig == getGatewayConfig(gwCache, gw)
  IN IF field = "token"
       THEN IF gatewayConfig.kind = "parsed" /\ gatewayConfig.tokenVar[provider] # NoValue
              THEN gatewayConfig.tokenVar[provider]
              ELSE getDefaultTokenKey(provider)
       ELSE IF gatewayConfig.kind = "parsed" /\ gatewayConfig.urlVar[provider] # NoValue
              THEN gatewayConfig.urlVar[provider]
              ELSE getDefaultUrlKey(provider)

\* The family getModelById infers from the identifier, or NoValue.
InferProvider(modelId) ==
  IF \/ StartsWith(modelId, <<"g", "p", "t", "-">>)
     \/ StartsWith(modelId, <<"o">>)
     \/ Includes(modelId, <<"c", "o", "d", "e", "x">>)
    THEN "openai"
  ELSE IF StartsWith(modelId, <<"c", "l", "a", "u", "d", "e", "-">>)
    THEN "anthropic"
  ELSE IF StartsWith(modelId, <<"g", "e", "m", "i", "n", "i", "-">>)
    THEN "google"
  ELSE NoValue

\* getOpenAIProvider / getAnthropicProvider / getGoogleProvider: TRUE when the
\* call returns a client (cached, or constructed because the key is set),
\* FALSE when it throws because the key is missing.
ProviderAvailable(cache, e, gwCache, gw, provider) ==
  \/ provider \in cache
  \/ getRawEnv(e, getGatewayEnvKey(gwCache, gw, provider, "token"))

\* The message of the Error a provider getter throws when the key is not
\* set, kept by the one thing that tells such messages apart: the name of the
\* variable it says it expected.
KeyNotFound(tokenKey) == tokenKey

\* The baseURL a provider getter hands to createOpenAI / createAnthropic /
\* createGoogleGenerativeAI: TRUE when it is a value, FALSE when undefined.
ProviderBaseURL(e, gwCache, gw, provider) ==
  getRawEnv(e, getGatewayEnvKey(gwCache, gw, provider, "url"))

\* getModelById: TRUE when it returns a ModelConfig, FALSE when it returns
\* undefined (no family inferred, or createModelConfig threw and was caught).
getModelById(cache, e, gwCache, gw, modelId) ==
  /\ InferProvider(modelId) # NoValue
  /\ ProviderAvailable(cache, e, gwCache, gw, InferProvider(modelId))

\* A provider getter that keeps its variable assigned when the key is missing.
CacheAfterResolveEvenOnFailure(cache, e, gwCache, gw, modelId) ==
  IF InferProvider(modelId) # NoValue
    THEN cache \cup {InferProvider(modelId)}
    ELSE cache

\* providerCache after getModelById(modelId).
CacheAfterResolve(cache, e, gwCache, gw, modelId) ==
  IF getModelById(cache, e, gwCache, gw, modelId)
    THEN cache \cup {InferProvider(modelId)}
    ELSE cache

\* A provider getter that constructs a client at every call that finds the key.
ConstructedAfterResolveAlways(count, cache, e, gwCache, gw, modelId) ==
  IF getModelById(cache, e, gwCache, gw, modelId)
    THEN [count EXCEPT ![InferProvider(modelId)] = @ + 1]
    ELSE count

\* The number of createOpenAI / createAnthropic / createGoogleGenerativeAI
\* calls after getModelById(modelId): a getter constructs a client when its
\* variable holds none and the key is set.
ConstructedAfterResolve(count, cache, e, gwCache, gw, modelId) ==
  IF getModelById(cache, e, gwCache, gw, modelId) /\ InferProvider(modelId) \notin cache
    THEN [count EXCEPT ![InferProvider(modelId)] = @ + 1]
    ELSE count

\* gatewayConfigCache after getModelById(modelId): getGatewayConfig runs only
\* when a provider getter finds its client not yet constructed.
GatewayAfterResolve(cache, gwCache, gw, modelId) ==
  IF InferProvider(modelId) # NoValue /\ InferProvider(modelId) \notin cache
    THEN getGatewayConfig(gwCache, gw)
    ELSE gwCache

\* A createChatAgent that builds the agent without looking at modelConfig.
createChatAgentUnchecked(cache, e, gwCache, gw, modelId) == TRUE

\* createChatAgent: TRUE when it returns an agent, FALSE when it throws
\* Error(`Unknown model: ${modelId}`).
createChatAgent(cache, e, gwCache, gw, modelId) ==
  getModelById(cache, e, gwCache, gw, modelId)

(* ------------------------ lib/memory.ts: storage ----------------------- *)

VARIABLES
  initPromise,   \* memory.ts initPromise: "null", "pending", "fulfilled", "rejected"
  initCalls,     \* number of calls of storage.init()
  threads,       \* Session Store: thread id -> thread record, messages included
  nextThreadId,  \* the identifier the next createThread assigns
  clock          \* the Session Store's time, one tick per write

\* A stored message: its content is text, or a structured value.
Text(value) == [isString |-> TRUE, value |-> value]

Message(role, content) == [role |-> role, content |-> Text(content)]

\* memory.createThread({resourceId, metadata: {modelId, createdAt}})
createThread(ths, id, now, resourceId, modelId) ==
  [t \in (DOMAIN ths) \cup {id} |->
     IF t = id
       THEN [resourceId |-> resourceId, modelId |-> modelId,
             createdAt |-> now, updatedAt |-> now, messages |-> <<>>]
       ELSE ths[t]]

\* The Session Store appends one message to a thread and touches updatedAt.
appendMessage(ths, id, now, msg) ==
  [ths EXCEPT ![id].messages = Append(@, msg), ![id].updatedAt = now]

\* A deleteThread that removes the messages and keeps the thread.
deleteThreadMessagesOnly(ths, id) ==
  [t \in DOMAIN ths |-> IF t = id THEN [ths[t] EXCEPT !.messages = <<>>] ELSE ths[t]]

\* memory.deleteThread(threadId): the thread and its messages are removed.
deleteThread(ths, id) == [t \in (DOMAIN ths) \ {id} |-> ths[t]]

\* memory.query({threadId, resourceId}).messages
queryMessages(ths, id) == IF id \in DOMAIN ths THEN ths[id].messages ELSE <<>>

\* A listing ordered by createdAt, most recently created first.
getThreadsByCreatedAt(ths, resourceId) ==
  LET own == {t \in DOMAIN ths : ths[t].resourceId = resourceId}
  IN CHOOSE q \in [1..Cardinality(own) -> own] :
       /\ \A i, j \in 1..Cardinality(own) : i # j => q[i] # q[j]
       /\ \A i, j \in 1..Cardinality(own) :
            i < j => \/ ths[q[i]].createdAt > ths[q[j]].createdAt
                     \/ /\ ths[q[i]].createdAt = ths[q[j]].createdAt
                        /\ q[i] < q[j]

\* memory.getThreadsByResourceId({resourceId, sortDirection: 'DESC', orderBy: 'updatedAt'})
getThreadsByResourceId(ths, resourceId) ==
  LET own == {t \in DOMAIN ths : ths[t].resourceId = resourceId}
  IN CHOOSE q \in [1..Cardinality(own) -> own] :
       /\ \A i, j \in 1..Cardinality(own) : i # j => q[i] # q[j]
       /\ \A i, j \in 1..Cardinality(own) :
            i < j => \/ ths[q[i]].updatedAt > ths[q[j]].updatedAt
                     \/ /\ ths[q[i]].updatedAt = ths[q[j]].updatedAt
                        /\ q[i] < q[j]

(* ------------------------------ requests ------------------------------- *)

VARIABLES
  req,        \* the request each handler invocation received
  pc,         \* where each handler invocation (and its relay task) stands
  resp,       \* the Response the handler returned, if it has
  resolved,   \* createChatAgent's outcome: "no" (not called), "throws", or the
              \* provider family of the ModelConfig the agent was built with
  streamed,   \* agent.stream was called
  frames,     \* the frames written to the response stream, in order
  upstream,   \* the fragments read from stream.textStream, in order
  connected   \* the client still holds the response stream

(* ------------------------------ the client ----------------------------- *)

\* The state of the Chat component and of its handleSubmit invocations.
VARIABLES
  messages,          \* useState<Message[]>: the messages on display
  input,             \* useState: the text of the input field
  isLoading,         \* useState: a turn is being sent or streamed
  currentThreadId,   \* useState<string | null>
  submitPc,          \* where each invocation of handleSubmit stands
  submitThread,      \* handleSubmit's local threadId
  assistantMessage,  \* processStreamedResponse's local assistantMessage
  body,              \* the frames the response body of each turn carries
  wire,              \* the bytes of that body the reader has not returned yet
  posted             \* the thread ids of the turn requests sent, in order

clientVars == <<messages, input, isLoading, currentThreadId, submitPc, submitThread,
                assistantMessage, body, wire, posted>>

vars == <<env, aiGateway, gatewayConfigCache, providerCache, constructed,
          initPromise, initCalls, threads, nextThreadId, clock,
          req, pc, resp, resolved, streamed, frames, upstream, connected,
          messages, input, isLoading, currentThreadId, submitPc, submitThread,
          assistantMessage, body, wire, posted>>

modelVars == <<env, aiGateway, gatewayConfigCache, providerCache, constructed>>

storeVars == <<threads, nextThreadId, clock>>

relayVars == <<frames, upstream, connected>>

ModelInputs == {Undefined, Claude3, Llama}

ResourceInputs == {NoValue, "alice"}

\* What the process finds in its environment at start: the OpenAI key is
\* set, the other keys and AI_GATEWAY are not.
Environments == { [env |-> {"OPENAI_API_KEY"}, aiGateway |-> GatewayAbsent] }

NoRequest ==
  [route |-> "none", method |-> "none", bodyOk |-> FALSE, newConversation |-> FALSE,
   message |-> Undefined, threadId |-> NoThread, modelId |-> Undefined,
   resourceId |-> NoValue]

\* POST /chat whose body request.json() rejects.
ChatMalformed == {[NoRequest EXCEPT !.route = "chat", !.method = "POST"]}

\* POST /chat {newConversation: true, modelId?, resourceId?}
ChatNewConversation ==
  {[NoRequest EXCEPT !.route = "chat", !.method = "POST", !.bodyOk = TRUE,
                     !.newConversation = TRUE, !.modelId = m, !.resourceId = o] :
     m \in {Undefined, Claude3}, o \in ResourceInputs}

\* POST /chat {message?, threadId?, modelId?}: a message with or without a
\* threadId and a modelId, and a missing or empty message.
ChatTurn(known) ==
  {[NoRequest EXCEPT !.route = "chat", !.method = "POST", !.bodyOk = TRUE,
                     !.message = Hello, !.threadId = t, !.modelId = m] :
     t \in known \cup {NoThread, GhostThread}, m \in ModelInputs}
  \cup
  {[NoRequest EXCEPT !.route = "chat", !.method = "POST", !.bodyOk = TRUE,
                     !.message = msg, !.threadId = t] :
     msg \in {Undefined, EmptyString}, t \in known \cup {NoThread}}

\* GET /threads?threadId=..., GET /threads, DELETE /threads?threadId=...,
\* GET /threads?resourceId=...
ThreadsQueries(known) ==
  {[NoRequest EXCEPT !.route = "threads", !.method = meth, !.threadId = t] :
     meth \in {"GET", "DELETE"}, t \in known \cup {NoThread}}
  \cup
  {[NoRequest EXCEPT !.route = "threads", !.method = "GET", !.resourceId = o] :
     o \in ResourceInputs}

\* POST /threads {title?, metadata?}, with a body req.json() accepts or rejects,
\* and a method the handler does not serve.
ThreadsOther ==
  {[NoRequest EXCEPT !.route = "threads", !.method = "POST", !.bodyOk = b] :
     b \in BOOLEAN}
  \cup {[NoRequest EXCEPT !.route = "threads", !.method = "PUT"]}

Requests(known) ==
  ChatMalformed \cup ChatNewConversation \cup ChatTurn(known)
    \cup ThreadsQueries(known) \cup ThreadsOther

NoResponse ==
  [status |-> 0, kind |-> "none", error |-> NoValue, success |-> FALSE,
   threadId |-> NoThread, messages |-> <<>>, threads |-> <<>>]

JsonError(status, msg) == [NoResponse EXCEPT !.status = status, !.kind = "json", !.error = msg]

JsonOk == [NoResponse EXCEPT !.status = 200, !.kind = "json"]

StreamResponse == [NoResponse EXCEPT !.status = 200, !.kind = "stream"]

ChunkFrame(value) ==
  [type |-> "chunk", content |-> value, threadId |-> NoThread, modelId |-> Undefined,
   error |-> NoValue]

DoneFrame(threadId, modelId) ==
  [type |-> "done", content |-> Undefined, threadId |-> threadId, modelId |-> modelId,
   error |-> NoValue]

ErrorFrame(msg) ==
  [type |-> "error", content |-> Undefined, threadId |-> NoThread, modelId |-> Undefined,
   error |-> msg]

\* const { modelId = 'gpt-4o-mini', resourceId = 'default-user' } = body
ModelOf(r) == IF req[r].modelId = Undefined THEN Gpt4oMini ELSE req[r].modelId

\* A destructuring that ignores the resourceId of the body.
ResourceOfAlwaysDefault(r) == DefaultUser

ResourceOf(r) == IF req[r].resourceId = NoValue THEN DefaultUser ELSE req[r].resourceId

\* A handler invocation that has been received and has not come to its end.
InFlight(r) == pc[r] \notin {"idle", "done", "fault", "closed", "unhandled"}

\* The Chat component as mounted: no message, no thread, nothing submitted.
ClientInit ==
  /\ messages = <<>>
  /\ input = EmptyString
  /\ isLoading = FALSE
  /\ currentThreadId = NoThread
  /\ submitPc = [s \in Submits |-> "idle"]
  /\ submitThread = [s \in Submits |-> NoThread]
  /\ assistantMessage = [s \in Submits |-> EmptyString]
  /\ body = [s \in Submits |-> <<>>]
  /\ wire = [s \in Submits |-> <<>>]
  /\ posted = <<>>

Init ==
  /\ \E e \in Environments : env = e.env /\ aiGateway = e.aiGateway
  /\ gatewayConfigCache = CacheUnset
  /\ providerCache = {}
  /\ constructed = [f \in Families |-> 0]
  /\ initPromise = "null"
  /\ initCalls = 0
  /\ ClientInit
  /\ threads = <<>>
  /\ nextThreadId = 1
  /\ clock = 0
  /\ req = [r \in Reqs |-> NoRequest]
  /\ pc = [r \in Reqs |-> "idle"]
  /\ resp = [r \in Reqs |-> NoResponse]
  /\ resolved = [r \in Reqs |-> "no"]
  /\ streamed = [r \in Reqs |-> FALSE]
  /\ frames = [r \in Reqs |-> <<>>]
  /\ upstream = [r \in Reqs |-> <<>>]
  /\ connected = [r \in Reqs |-> TRUE]

(* ------------------------- storage initialisation --------------------- *)

\* An initializeStorage() that calls storage.init() on every call.
initializeStorageEachCall ==
  /\ initPromise' = "pending"
  /\ initCalls' = initCalls + 1

\* initializeStorage(), up to its return of initPromise: the first call creates
\* the promise, and creating it calls storage.init().
initializeStorage ==
  /\ initPromise' = IF initPromise = "null" THEN "pending" ELSE initPromise
  /\ initCalls' = IF initPromise = "null" THEN initCalls + 1 ELSE initCalls

\* An exchange that ended with a plain Response (or with none): once the next
\* request arrives nothing of it is left in the process.
Ended(q) == pc[q] \in {"done", "fault"}

\* An exchange whose relay task has ended: its stream stays with the client,
\* the task's own state is gone once the next request arrives.
RelayEnded(q) == pc[q] \in {"closed", "unhandled"}

\* A request, one of inputs, arrives: the handler starts and calls
\* initializeStorage(). Requests are handled one after the other.
ReceiveFrom(r, inputs) ==
  /\ pc[r] = "idle"
  /\ \A q \in Reqs : ~InFlight(q) /\ (q < r => pc[q] # "idle")
  /\ \E request \in inputs :
       req' = [q \in Reqs |-> IF q = r THEN request
                              ELSE IF Ended(q) THEN NoRequest ELSE req[q]]
  /\ resp' = [q \in Reqs |-> IF Ended(q) THEN NoResponse ELSE resp[q]]
  /\ resolved' = [q \in Reqs |-> IF Ended(q) \/ RelayEnded(q) THEN "no" ELSE resolved[q]]
  /\ streamed' = [q \in Reqs |-> IF Ended(q) \/ RelayEnded(q) THEN FALSE ELSE streamed[q]]
  /\ upstream' = [q \in Reqs |-> IF RelayEnded(q) THEN <<>> ELSE upstream[q]]
  /\ connected' = [q \in Reqs |-> IF RelayEnded(q) THEN TRUE ELSE connected[q]]
  /\ pc' = [pc EXCEPT ![r] = "init"]
  /\ initializeStorage
  /\ UNCHANGED <<modelVars, storeVars, frames, clientVars>>

\* Any request of the two endpoints arrives.
Receive(r) == ReceiveFrom(r, Requests(DOMAIN threads))

\* storage.init() settles: the promise is fulfilled, or rejected for good.
StorageInitSettles ==
  /\ initPromise = "pending"
  /\ \E outcome \in {"fulfilled", "rejected"} : initPromise' = outcome
  /\ UNCHANGED <<modelVars, storeVars, relayVars, initCalls, clientVars, req, pc, resp, resolved,
                 streamed>>

\* `await initializeStorage()` stands before the handler's try block: a
\* rejected promise rejects the handler, which returns no Response.
AwaitInit(r) ==
  /\ pc[r] = "init"
  /\ initPromise \in {"fulfilled", "rejected"}
  /\ pc' = [pc EXCEPT ![r] = IF initPromise = "fulfilled" THEN "body" ELSE "fault"]
  /\ UNCHANGED <<modelVars, storeVars, relayVars, initPromise, initCalls, clientVars, req, resp,
                 resolved, streamed>>

(* ------------------------------ POST /chat ----------------------------- *)

\* The handler returns a Response.
Respond(r, response) ==
  /\ resp' = [resp EXCEPT ![r] = response]
  /\ pc' = [pc EXCEPT ![r] = "done"]

\* A validation that does not look at threadId.
ValidateMessageOnly(r) ==
  IF req[r].message \in {Undefined, EmptyString} THEN "Message is required" ELSE NoValue

\* A validation that accepts every body.
ValidateNothing(r) == NoValue

\* Validate required fields: the error of the 400 answer, or NoValue.
Validate(r) ==
  IF req[r].message \in {Undefined, EmptyString} THEN "Message is required"
  ELSE IF req[r].threadId = NoThread THEN "Thread ID is required"
  ELSE NoValue

\* The body is read and the request is told apart: a body that does not
\* parse, a new conversation, a turn that fails validation, a turn whose
\* model does not resolve, a turn for which agent.stream is called.
ChatBody(r) ==
  /\ pc[r] = "body"
  /\ req[r].route = "chat"
  /\ IF ~req[r].bodyOk
       THEN /\ Respond(r, JsonError(500, "Unexpected token"))
            /\ UNCHANGED <<modelVars, resolved, streamed>>
     ELSE IF req[r].newConversation
       THEN /\ pc' = [pc EXCEPT ![r] = "creating"]
            /\ UNCHANGED <<modelVars, resp, resolved, streamed>>
     ELSE IF Validate(r) # NoValue
       THEN /\ Respond(r, JsonError(400, Validate(r)))
            /\ UNCHANGED <<modelVars, resolved, streamed>>
     ELSE /\ gatewayConfigCache' =
               GatewayAfterResolve(providerCache, gatewayConfigCache, aiGateway, ModelOf(r))
          /\ providerCache' =
               CacheAfterResolve(providerCache, env, gatewayConfigCache, aiGateway, ModelOf(r))
          /\ constructed' =
               ConstructedAfterResolve(constructed, providerCache, env, gatewayConfigCache,
                                       aiGateway, ModelOf(r))
          /\ UNCHANGED <<env, aiGateway>>
          /\ IF createChatAgent(providerCache, env, gatewayConfigCache, aiGateway, ModelOf(r))
               THEN /\ resolved' = [resolved EXCEPT ![r] = InferProvider(ModelOf(r))]
                    /\ streamed' = [streamed EXCEPT ![r] = TRUE]
                    /\ pc' = [pc EXCEPT ![r] = "streamStart"]
                    /\ UNCHANGED resp
               ELSE /\ resolved' = [resolved EXCEPT ![r] = "throws"]
                    /\ Respond(r, JsonError(500, "Unknown model"))
                    /\ UNCHANGED streamed
  /\ UNCHANGED <<storeVars, relayVars, initPromise, initCalls, clientVars, req>>

\* The Session Store integration of agent.stream(message, {threadId, resourceId}):
\* the user's turn is recorded in the thread before the call returns.
saveUserTurn(ths, id, now, msg) == appendMessage(ths, id, now, Message("user", msg))

\* A new-conversation branch that also records the message the request
\* carries, in the thread it created.
ChatCreateThreadAndTurn(r) ==
  /\ pc[r] = "creating"
  /\ \/ /\ threads' = saveUserTurn(
               createThread(threads, nextThreadId, clock + 1, ResourceOf(r), ModelOf(r)),
               nextThreadId, clock + 1, req[r].message)
        /\ nextThreadId' = nextThreadId + 1
        /\ clock' = clock + 1
        /\ Respond(r, [JsonOk EXCEPT !.success = TRUE, !.threadId = nextThreadId])
     \/ /\ Respond(r, JsonError(500, "storage error"))
        /\ UNCHANGED storeVars
  /\ UNCHANGED <<modelVars, relayVars, initPromise, initCalls, clientVars, req, resolved,
                 streamed>>

\* memory.createThread of a new conversation returns, or throws.
ChatCreateThread(r) ==
  /\ pc[r] = "creating"
  /\ \/ /\ threads' = createThread(threads, nextThreadId, clock + 1, ResourceOf(r), ModelOf(r))
        /\ nextThreadId' = nextThreadId + 1
        /\ clock' = clock + 1
        /\ Respond(r, [JsonOk EXCEPT !.success = TRUE, !.threadId = nextThreadId])
     \/ /\ Respond(r, JsonError(500, "storage error"))
        /\ UNCHANGED storeVars
  /\ UNCHANGED <<modelVars, relayVars, initPromise, initCalls, clientVars, req, resolved, streamed>>

\* agent.stream called without threadId and resourceId: the Session Store is
\* not involved.
AgentStreamWithoutMemory(r) ==
  /\ pc[r] = "streamStart"
  /\ \/ /\ resp' = [resp EXCEPT ![r] = StreamResponse]
        /\ pc' = [pc EXCEPT ![r] = "read"]
     \/ Respond(r, JsonError(500, "stream error"))
  /\ UNCHANGED <<modelVars, storeVars, relayVars, initPromise, initCalls, clientVars, req, resolved,
                 streamed>>

\* `await agent.stream(...)` settles. It returns the stream, the user's turn
\* recorded, and the handler returns the streamed Response and starts the
\* relay task; or it throws and the handler answers 500. For a thread the
\* store does not hold, the integration creates it or throws.
AgentStream(r) ==
  /\ pc[r] = "streamStart"
  /\ \/ /\ req[r].threadId \in DOMAIN threads
        /\ threads' = saveUserTurn(threads, req[r].threadId, clock + 1, req[r].message)
        /\ clock' = clock + 1
        /\ resp' = [resp EXCEPT ![r] = StreamResponse]
        /\ pc' = [pc EXCEPT ![r] = "read"]
        /\ UNCHANGED nextThreadId
     \/ /\ req[r].threadId \notin DOMAIN threads
        /\ threads' = saveUserTurn(
             createThread(threads, req[r].threadId, clock + 1, ResourceOf(r), Undefined),
             req[r].threadId, clock + 1, req[r].message)
        /\ clock' = clock + 1
        /\ resp' = [resp EXCEPT ![r] = StreamResponse]
        /\ pc' = [pc EXCEPT ![r] = "read"]
        /\ UNCHANGED nextThreadId
     \/ /\ Respond(r, JsonError(500, "stream error"))
        /\ UNCHANGED storeVars
  /\ UNCHANGED <<modelVars, relayVars, initPromise, initCalls, clientVars, req, resolved, streamed>>

(* ------------------------------ the relay ------------------------------ *)

\* An integration that records the assembled reply in every thread.
saveAssistantTurnEverywhere(ths, id, now, fragments) ==
  [t \in DOMAIN ths |->
     [ths[t] EXCEPT !.messages = Append(@, Message("assistant", Concat(fragments))),
                    !.updatedAt = now]]

\* The Session Store integration at the completion of the token stream: the
\* assembled reply is recorded in the thread, if the store still holds it.
saveAssistantTurn(ths, id, now, fragments) ==
  IF id \in DOMAIN ths
    THEN appendMessage(ths, id, now, Message("assistant", Concat(fragments)))
    ELSE ths

\* A relay that calls reader.read() again while the write of the previous
\* frame is still pending.
ReadyToReadEagerly(r) == pc[r] \in {"read", "writeChunk"}

\* The relay loop is at `await reader.read()`: every `await writer.write(...)`
\* of the loop body has settled before the loop comes back to it.
ReadyToRead(r) == pc[r] = "read"

\* `await reader.read()` settles: a fragment, the end of the stream, or an error.
RelayRead(r) ==
  /\ ReadyToRead(r)
  /\ \/ /\ Len(upstream[r]) < MaxFragments
        /\ upstream' = [upstream EXCEPT ![r] = Append(@, FragmentAt(Len(@) + 1))]
        /\ pc' = [pc EXCEPT ![r] = "writeChunk"]
        /\ UNCHANGED storeVars
     \/ /\ threads' = saveAssistantTurn(threads, req[r].threadId, clock + 1, upstream[r])
        /\ clock' = clock + 1
        /\ pc' = [pc EXCEPT ![r] = "writeDone"]
        /\ UNCHANGED <<nextThreadId, upstream>>
     \/ /\ pc' = [pc EXCEPT ![r] = "writeError"]
        /\ UNCHANGED <<storeVars, upstream>>
  /\ UNCHANGED <<modelVars, initPromise, initCalls, clientVars, req, resp, resolved, streamed,
                 frames, connected>>

\* A relay that writes the first fragment read, whatever it has read since.
FrameToWriteFirst(r) ==
  CASE pc[r] = "writeChunk" -> ChunkFrame(upstream[r][1])
    [] pc[r] = "writeDone" -> DoneFrame(req[r].threadId, ModelOf(r))
    [] pc[r] = "writeError" -> ErrorFrame("Streaming error")

\* A relay whose catch block reports completion.
FrameToWriteDoneOnError(r) ==
  CASE pc[r] = "writeChunk" -> ChunkFrame(upstream[r][Len(upstream[r])])
    [] pc[r] = "writeDone" -> DoneFrame(req[r].threadId, ModelOf(r))
    [] pc[r] = "writeError" -> DoneFrame(req[r].threadId, ModelOf(r))

\* The frame the relay task is about to write.
FrameToWrite(r) ==
  CASE pc[r] = "writeChunk" -> ChunkFrame(upstream[r][Len(upstream[r])])
    [] pc[r] = "writeDone" -> DoneFrame(req[r].threadId, ModelOf(r))
    [] pc[r] = "writeError" -> ErrorFrame("Streaming error")

\* A relay that goes back to reading after every accepted write.
AfterWriteKeepsReading(r) == "read"

\* Where the relay task goes after a write the response stream accepted.
AfterWrite(r) == IF pc[r] = "writeChunk" THEN "read" ELSE "closed"

\* Where the relay task goes after a write the response stream rejected: a
\* write in the try block throws into the catch block, whose own write is
\* awaited outside any try.
AfterFailedWrite(r) == IF pc[r] = "writeError" THEN "unhandled" ELSE "writeError"

\* `await writer.write(...)` settles: the frame is accepted (after the done
\* frame and after the error frame the writer is closed), or the write is
\* rejected because the client has gone.
RelayWrite(r) ==
  /\ pc[r] \in {"writeChunk", "writeDone", "writeError"}
  /\ IF connected[r]
       THEN /\ frames' = [frames EXCEPT ![r] = Append(@, FrameToWrite(r))]
            /\ pc' = [pc EXCEPT ![r] = AfterWrite(r)]
       ELSE /\ pc' = [pc EXCEPT ![r] = AfterFailedWrite(r)]
            /\ UNCHANGED frames
  /\ UNCHANGED <<modelVars, storeVars, initPromise, initCalls, clientVars, req, resp, resolved,
                 streamed, upstream, connected>>

\* The client drops the response stream while the turn is streaming.
ClientDisconnect(r) ==
  /\ pc[r] \in {"read", "writeChunk", "writeDone", "writeError"}
  /\ connected[r]
  /\ connected' = [connected EXCEPT ![r] = FALSE]
  /\ UNCHANGED <<modelVars, storeVars, initPromise, initCalls, clientVars, req, pc, resp, resolved,
                 streamed, frames, upstream>>

(* --------------------------- /threads handler -------------------------- *)

\* JSON.stringify of a structured content.
JsonStringify(value) == <<"{">> \o value \o <<"}">>

\* A normalisation that serialises every content.
normalizeContentAlways(content) == JsonStringify(content.value)

\* A normalisation that returns every content as it is stored.
normalizeContentNever(content) == content.value

\* typeof msg.content === 'string' ? msg.content : JSON.stringify(msg.content)
normalizeContent(content) ==
  IF content.isString THEN content.value ELSE JsonStringify(content.value)

\* messages.map(msg => ({role, content}))
normalizeMessages(msgs) ==
  [i \in 1..Len(msgs) |-> [role |-> msgs[i].role, content |-> normalizeContent(msgs[i].content)]]

\* GET with a threadId: `await memory.getThreadById` returns (the thread or
\* null) or throws.
ThreadsGetThread(r) ==
  /\ pc[r] = "body"
  /\ req[r].route = "threads" /\ req[r].method = "GET" /\ req[r].threadId # NoThread
  /\ \/ /\ pc' = [pc EXCEPT ![r] = "query"]
        /\ UNCHANGED resp
     \/ Respond(r, JsonError(500, "storage error"))
  /\ UNCHANGED <<modelVars, storeVars, relayVars, initPromise, initCalls, clientVars, req, resolved,
                 streamed>>

\* `await memory.query` returns the messages, which the handler normalises, or throws.
ThreadsQuery(r) ==
  /\ pc[r] = "query"
  /\ \/ Respond(r, [JsonOk EXCEPT
          !.threadId = IF req[r].threadId \in DOMAIN threads THEN req[r].threadId ELSE NoThread,
          !.messages = normalizeMessages(queryMessages(threads, req[r].threadId))])
     \/ Respond(r, JsonError(500, "storage error"))
  /\ UNCHANGED <<modelVars, storeVars, relayVars, initPromise, initCalls, clientVars, req, resolved,
                 streamed>>

\* GET without a threadId: the owner's threads, most recently updated first.
ThreadsList(r) ==
  /\ pc[r] = "body"
  /\ req[r].route = "threads" /\ req[r].method = "GET" /\ req[r].threadId = NoThread
  /\ \/ Respond(r, [JsonOk EXCEPT !.threads = getThreadsByResourceId(threads, ResourceOf(r))])
     \/ Respond(r, JsonError(500, "storage error"))
  /\ UNCHANGED <<modelVars, storeVars, relayVars, initPromise, initCalls, clientVars, req, resolved,
                 streamed>>

\* POST: the body is read and a thread is created.
ThreadsPost(r) ==
  /\ pc[r] = "body"
  /\ req[r].route = "threads" /\ req[r].method = "POST"
  /\ \/ /\ req[r].bodyOk
        /\ threads' = createThread(threads, nextThreadId, clock + 1, ResourceOf(r), Undefined)
        /\ nextThreadId' = nextThreadId + 1
        /\ clock' = clock + 1
        /\ Respond(r, [JsonOk EXCEPT !.threadId = nextThreadId])
     \/ /\ Respond(r, JsonError(500, IF req[r].bodyOk THEN "storage error" ELSE "Unexpected token"))
        /\ UNCHANGED storeVars
  /\ UNCHANGED <<modelVars, relayVars, initPromise, initCalls, clientVars, req, resolved, streamed>>

\* A DELETE branch that calls memory.deleteThread whatever threadId is.
ThreadsDeleteUnvalidated(r) ==
  /\ pc[r] = "body"
  /\ req[r].route = "threads" /\ req[r].method = "DELETE"
  /\ \/ /\ threads' = deleteThread(threads, req[r].threadId)
        /\ clock' = clock + 1
        /\ Respond(r, [JsonOk EXCEPT !.success = TRUE])
        /\ UNCHANGED nextThreadId
     \/ /\ Respond(r, JsonError(500, "storage error"))
        /\ UNCHANGED storeVars
  /\ UNCHANGED <<modelVars, relayVars, initPromise, initCalls, clientVars, req, resolved, streamed>>

\* DELETE: 400 without a threadId, else memory.deleteThread.
ThreadsDelete(r) ==
  /\ pc[r] = "body"
  /\ req[r].route = "threads" /\ req[r].method = "DELETE"
  /\ IF req[r].threadId = NoThread
       THEN /\ Respond(r, JsonError(400, "Thread ID required"))
            /\ UNCHANGED storeVars
       ELSE \/ /\ threads' = deleteThread(threads, req[r].threadId)
               /\ clock' = clock + 1
               /\ Respond(r, [JsonOk EXCEPT !.success = TRUE])
               /\ UNCHANGED nextThreadId
            \/ /\ Respond(r, JsonError(500, "storage error"))
               /\ UNCHANGED storeVars
  /\ UNCHANGED <<modelVars, relayVars, initPromise, initCalls, clientVars, req, resolved, streamed>>

\* Any other method: 405.
ThreadsMethodNotAllowed(r) ==
  /\ pc[r] = "body"
  /\ req[r].route = "threads" /\ req[r].method \notin {"GET", "POST", "DELETE"}
  /\ Respond(r, [NoResponse EXCEPT !.status = 405, !.kind = "text"])
  /\ UNCHANGED <<modelVars, storeVars, relayVars, initPromise, initCalls, clientVars, req, resolved,
                 streamed>>

(* ---------------------------- specification ---------------------------- *)

Next ==
  \/ StorageInitSettles
  \/ \E r \in Reqs :
       \/ Receive(r)
       \/ AwaitInit(r)
       \/ ChatBody(r)
       \/ ChatCreateThread(r)
       \/ AgentStream(r)
       \/ RelayRead(r)
       \/ RelayWrite(r)
       \/ ClientDisconnect(r)
       \/ ThreadsGetThread(r)
       \/ ThreadsQuery(r)
       \/ ThreadsList(r)
       \/ ThreadsPost(r)
       \/ ThreadsDelete(r)
       \/ ThreadsMethodNotAllowed(r)

Spec == Init /\ [][Next]_vars

(* ------------------- model resolution on its own ---------------------- *)

O1 == <<"o", "1">>

Gemini2 == <<"g", "e", "m", "i", "n", "i", "-", "2">>

ClaudeCodex == <<"c", "l", "a", "u", "d", "e", "-", "c", "o", "d", "e", "x">>

GptNoDash == <<"g", "p", "t">>

\* The identifiers createChatAgent is called with.
ModelIds == {Gpt4oMini, Claude3, Gemini2, O1, ClaudeCodex, GptNoDash, Llama}

\* What the process finds in its environment at start: nothing; the OpenAI
\* key alone; key and base URL of every family; the key the gateway
\* configuration names for OpenAI and the Anthropic key. AI_GATEWAY is
\* absent, or does not parse, or names the OpenAI variables.
ModelEnvironments ==
  { [env |-> e, aiGateway |-> g] :
      e \in { {},
              {"OPENAI_API_KEY"},
              {"OPENAI_API_KEY", "OPENAI_BASE_URL", "ANTHROPIC_API_KEY",
               "ANTHROPIC_BASE_URL", "GEMINI_API_KEY", "GOOGLE_GEMINI_BASE_URL"},
              {"CUSTOM_OPENAI_KEY", "ANTHROPIC_API_KEY"} },
      g \in {GatewayAbsent, GatewayGarbage, GatewayCustom} }

InitModels ==
  /\ \E e \in ModelEnvironments : env = e.env /\ aiGateway = e.aiGateway
  /\ gatewayConfigCache = CacheUnset
  /\ providerCache = {}
  /\ constructed = [f \in Families |-> 0]
  /\ initPromise = "null"
  /\ initCalls = 0
  /\ ClientInit
  /\ threads = <<>>
  /\ nextThreadId = 1
  /\ clock = 0
  /\ req = [r \in Reqs |-> NoRequest]
  /\ pc = [r \in Reqs |-> "idle"]
  /\ resp = [r \in Reqs |-> NoResponse]
  /\ resolved = [r \in Reqs |-> "no"]
  /\ streamed = [r \in Reqs |-> FALSE]
  /\ frames = [r \in Reqs |-> <<>>]
  /\ upstream = [r \in Reqs |-> <<>>]
  /\ connected = [r \in Reqs |-> TRUE]

\* createChatAgent({modelId}) is called, for the r-th time in the life of the
\* process: getModelById infers the family, the family's getter returns its
\* client or constructs it or throws, and createChatAgent returns an agent
\* built with the ModelConfig or throws.
ResolveModel(r) ==
  /\ pc[r] = "idle"
  /\ \A q \in Reqs : q < r => pc[q] = "done"
  /\ \E m \in ModelIds :
       /\ req' = [req EXCEPT ![r] = [NoRequest EXCEPT !.modelId = m]]
       /\ gatewayConfigCache' =
            GatewayAfterResolve(providerCache, gatewayConfigCache, aiGateway, m)
       /\ providerCache' =
            CacheAfterResolve(providerCache, env, gatewayConfigCache, aiGateway, m)
       /\ constructed' =
            ConstructedAfterResolve(constructed, providerCache, env, gatewayConfigCache,
                                    aiGateway, m)
       /\ resolved' = [resolved EXCEPT ![r] =
            IF createChatAgent(providerCache, env, gatewayConfigCache, aiGateway, m)
              THEN InferProvider(m) ELSE "throws"]
  /\ pc' = [pc EXCEPT ![r] = "done"]
  /\ UNCHANGED <<env, aiGateway, storeVars, relayVars, initPromise, initCalls, clientVars, resp,
                 streamed>>

NextModels == \E r \in Reqs : ResolveModel(r)

SpecModels == InitModels /\ [][NextModels]_vars

(* ------------------ resolution in a changing environment -------------- *)

\* The variables a provider getter can read a credential from.
CredentialNames ==
  {getDefaultTokenKey(f) : f \in Families} \cup {GatewayCustom.tokenVar["openai"]}

\* A credential appears in process.env between two resolutions: provider
\* clients are created at request time, when the variables are available.
PlaceCredential(key) ==
  /\ key \notin env
  /\ env' = env \cup {key}
  /\ UNCHANGED <<aiGateway, gatewayConfigCache, providerCache, constructed, storeVars,
                 relayVars, initPromise, initCalls, clientVars, req, pc, resp, resolved,
                 streamed>>

NextRecover ==
  \/ \E r \in Reqs : ResolveModel(r)
  \/ \E key \in CredentialNames : PlaceCredential(key)

SpecRecover == InitModels /\ [][NextRecover]_vars

(* ----------------------- concurrent submissions ------------------------ *)

\* New conversations and turn submissions for threads the store holds, with
\* the default model.
ConcurrentRequests(known) ==
  {[NoRequest EXCEPT !.route = "chat", !.method = "POST", !.bodyOk = TRUE,
                     !.newConversation = TRUE]}
  \cup
  {[NoRequest EXCEPT !.route = "chat", !.method = "POST", !.bodyOk = TRUE,
                     !.message = Hello, !.threadId = t] : t \in known}

\* A request arrives while earlier ones are still being handled: the runtime
\* starts a handler invocation for it at once, and the invocations take
\* turns at their awaits.
ReceiveConcurrently(r) ==
  /\ pc[r] = "idle"
  /\ \A q \in Reqs : q < r => pc[q] # "idle"
  /\ \E request \in ConcurrentRequests(DOMAIN threads) : req' = [req EXCEPT ![r] = request]
  /\ pc' = [pc EXCEPT ![r] = "init"]
  /\ initializeStorage
  /\ UNCHANGED <<modelVars, storeVars, relayVars, resp, resolved, streamed, clientVars>>

NextConcurrent ==
  \/ StorageInitSettles
  \/ \E r \in Reqs :
       \/ ReceiveConcurrently(r)
       \/ AwaitInit(r)
       \/ ChatBody(r)
       \/ ChatCreateThread(r)
       \/ AgentStream(r)
       \/ RelayRead(r)
       \/ RelayWrite(r)

SpecConcurrent == Init /\ [][NextConcurrent]_vars

(* ------------------------- the store over time ------------------------- *)

\* The number of conversations the store holds when the process starts with
\* a store earlier processes have written.
StoredThreads == 3

RECURSIVE StoreAfter(_)
\* The store after n new conversations of the placeholder owner, created one
\* after the other, each then followed by one completed turn.
StoreAfter(k) ==
  IF k = 0 THEN <<>>
  ELSE IF k <= StoredThreads
    THEN createThread(StoreAfter(k - 1), k, k, DefaultUser, Gpt4oMini)
  ELSE LET id == k - StoredThreads
           now == StoredThreads + 2 * (id - 1) + 1
       IN saveAssistantTurn(saveUserTurn(StoreAfter(k - 1), id, now, Hello),
                            id, now + 1, <<FragmentAt(1)>>)

\* The process starts with an empty store, or with the store of earlier
\* conversations.
InitThreads ==
  /\ \E e \in Environments : env = e.env /\ aiGateway = e.aiGateway
  /\ gatewayConfigCache = CacheUnset
  /\ providerCache = {}
  /\ constructed = [f \in Families |-> 0]
  /\ initPromise = "null"
  /\ initCalls = 0
  /\ ClientInit
  /\ \/ threads = <<>> /\ nextThreadId = 1 /\ clock = 0
     \/ /\ threads = StoreAfter(2 * StoredThreads)
        /\ nextThreadId = StoredThreads + 1
        /\ clock = 3 * StoredThreads
  /\ req = [r \in Reqs |-> NoRequest]
  /\ pc = [r \in Reqs |-> "idle"]
  /\ resp = [r \in Reqs |-> NoResponse]
  /\ resolved = [r \in Reqs |-> "no"]
  /\ streamed = [r \in Reqs |-> FALSE]
  /\ frames = [r \in Reqs |-> <<>>]
  /\ upstream = [r \in Reqs |-> <<>>]
  /\ connected = [r \in Reqs |-> TRUE]

\* New conversations, turns on threads the store holds, listings and deletes.
StoreRequests(known) ==
  {[NoRequest EXCEPT !.route = "chat", !.method = "POST", !.bodyOk = TRUE,
                     !.newConversation = TRUE, !.resourceId = o] : o \in ResourceInputs}
  \cup
  {[NoRequest EXCEPT !.route = "chat", !.method = "POST", !.bodyOk = TRUE,
                     !.message = Hello, !.threadId = t] : t \in known}
  \cup
  {[NoRequest EXCEPT !.route = "threads", !.method = "GET", !.resourceId = o] :
     o \in ResourceInputs}
  \cup
  {[NoRequest EXCEPT !.route = "threads", !.method = "DELETE", !.threadId = t] :
     t \in known}

ReceiveStoreRequest(r) == ReceiveFrom(r, StoreRequests(DOMAIN threads))

NextThreads ==
  \/ StorageInitSettles
  \/ \E r \in Reqs :
       \/ ReceiveStoreRequest(r)
       \/ AwaitInit(r)
       \/ ChatBody(r)
       \/ ChatCreateThread(r)
       \/ AgentStream(r)
       \/ RelayRead(r)
       \/ RelayWrite(r)
       \/ ThreadsList(r)
       \/ ThreadsDelete(r)

SpecThreads == InitThreads /\ [][NextThreads]_vars

(* --------------------------- fetching a thread ------------------------- *)

\* The largest number of messages of the thread the store holds at start.
MaxMessages == 4

\* A stored content that is not a string: the parts of a structured message.
Parts(value) == [isString |-> FALSE, value |-> value]

\* The contents the store holds for an assistant message number k: text, or
\* the same text as parts.
AssistantContents(k) == {Text(FragmentAt(k)), Parts(FragmentAt(k))}

\* The message lists of a thread after n messages: user and assistant
\* messages in turn, the last turn possibly without its reply.
StoredMessages(n) ==
  {q \in [1..n -> [role : {"user", "assistant"},
                   content : {Text(Hello)} \cup AssistantContents(1) \cup AssistantContents(2)]] :
     \A i \in 1..n :
       IF i % 2 = 1
         THEN q[i] = Message("user", Hello)
         ELSE q[i].role = "assistant" /\ q[i].content \in AssistantContents(i \div 2)}

\* The process starts with a store that holds one thread of earlier turns.
InitFetch ==
  /\ \E e \in Environments : env = e.env /\ aiGateway = e.aiGateway
  /\ gatewayConfigCache = CacheUnset
  /\ providerCache = {}
  /\ constructed = [f \in Families |-> 0]
  /\ initPromise = "null"
  /\ initCalls = 0
  /\ ClientInit
  /\ \E n \in 0..MaxMessages : \E q \in StoredMessages(n) :
       threads = [createThread(<<>>, 1, 1, DefaultUser, Gpt4oMini)
                    EXCEPT ![1].messages = q, ![1].updatedAt = 1 + n]
  /\ nextThreadId = 2
  /\ clock = 1 + MaxMessages
  /\ req = [r \in Reqs |-> NoRequest]
  /\ pc = [r \in Reqs |-> "idle"]
  /\ resp = [r \in Reqs |-> NoResponse]
  /\ resolved = [r \in Reqs |-> "no"]
  /\ streamed = [r \in Reqs |-> FALSE]
  /\ frames = [r \in Reqs |-> <<>>]
  /\ upstream = [r \in Reqs |-> <<>>]
  /\ connected = [r \in Reqs |-> TRUE]

\* GET /threads?threadId=... for a thread the store holds, and a turn on it.
FetchRequests(known) ==
  {[NoRequest EXCEPT !.route = "threads", !.method = "GET", !.threadId = t] : t \in known}
  \cup
  {[NoRequest EXCEPT !.route = "chat", !.method = "POST", !.bodyOk = TRUE,
                     !.message = Hello, !.threadId = t] : t \in known}

ReceiveFetchRequest(r) == ReceiveFrom(r, FetchRequests(DOMAIN threads))

NextFetch ==
  \/ StorageInitSettles
  \/ \E r \in Reqs :
       \/ ReceiveFetchRequest(r)
       \/ AwaitInit(r)
       \/ ChatBody(r)
       \/ AgentStream(r)
       \/ RelayRead(r)
       \/ RelayWrite(r)
       \/ ThreadsGetThread(r)
       \/ ThreadsQuery(r)

SpecFetch == InitFetch /\ [][NextFetch]_vars

(* -------------------- new conversations on their own ------------------- *)

\* POST /chat {newConversation: true, ...}: with or without a message, a
\* threadId (of a stored thread or not) and a modelId (default, resolvable
\* or unknown).
CreateRequests(known) ==
  {[NoRequest EXCEPT !.route = "chat", !.method = "POST", !.bodyOk = TRUE,
                     !.newConversation = TRUE, !.message = msg, !.threadId = t,
                     !.modelId = m] :
     msg \in {Undefined, Hello}, t \in known \cup {NoThread, GhostThread}, m \in ModelInputs}

ReceiveCreateRequest(r) == ReceiveFrom(r, CreateRequests(DOMAIN threads))

NextCreate ==
  \/ StorageInitSettles
  \/ \E r \in Reqs :
       \/ ReceiveCreateRequest(r)
       \/ AwaitInit(r)
       \/ ChatBody(r)
       \/ ChatCreateThread(r)

SpecCreate == InitThreads /\ [][NextCreate]_vars

(* ------------------------- components/Chat.tsx ------------------------- *)

serverVars == <<env, aiGateway, gatewayConfigCache, providerCache, constructed,
                initPromise, initCalls, threads, nextThreadId, clock,
                req, pc, resp, resolved, streamed, frames, upstream, connected>>

\* The threads of earlier conversations the sidebar lists: their identifiers
\* are not those the Session Store assigns to the conversations started here.
EarlierThreads == ThreadIds \ Submits

\* The messages GET /threads?threadId= answers for an earlier conversation.
EarlierMessages ==
  << [role |-> "user", content |-> Hello],
     [role |-> "assistant", content |-> FragmentAt(2)] >>

\* The message handleSubmit's catch block appends.
SorryMessage ==
  [role |-> "assistant",
   content |-> <<"S", "o", "r", "r", "y">>]

\* `Error: ${data.error}`
ErrorText(error) == <<"E", "r", "r", "o", "r", ":", " ", error>>

\* JSON.stringify(frame) + '\n', as the relay encodes a frame: an object
\* between braces that starts with its type, then a line feed.
FrameLine(f) ==
  CASE f.type = "chunk" -> <<"{", "c">> \o f.content \o <<"}", "\n">>
    [] f.type = "done" -> <<"{", "d", "}", "\n">>
    [] f.type = "error" -> <<"{", "e", "}", "\n">>

RECURSIVE Bytes(_)
\* The bytes of a response body that carries these frames.
Bytes(fs) == IF fs = <<>> THEN <<>> ELSE FrameLine(Head(fs)) \o Bytes(Tail(fs))

\* The fragments 1..k of the reply, each in its chunk frame.
Chunks(k) == [i \in 1..k |-> ChunkFrame(FragmentAt(i))]

\* The bodies the relay can write for a turn on `threadId`: the chunks of the
\* fragments read, then a done frame or an error frame.
Bodies(threadId) ==
  { Append(Chunks(k), last) :
      k \in 0..MaxChunks,
      last \in {DoneFrame(threadId, Gpt4oMini), ErrorFrame("Streaming error")} }

RECURSIVE SplitLines(_, _)
\* text.split('\n'), `line` being the line under construction.
SplitLines(text, line) ==
  IF text = <<>> THEN <<line>>
  ELSE IF Head(text) = "\n" THEN <<line>> \o SplitLines(Tail(text), <<>>)
  ELSE SplitLines(Tail(text), Append(line, Head(text)))

\* .filter(line => line.trim())
NonEmptyLines(lines) == SelectSeq(lines, LAMBDA line : line # <<>>)

NoData == [type |-> "none", content |-> EmptyString]

\* JSON.parse(line) in its try block: the object of a complete line, and
\* nothing (the exception is caught and logged) for a piece of a line.
ParseLine(line) ==
  IF /\ Len(line) >= 3
     /\ line[1] = "{"
     /\ line[Len(line)] = "}"
     /\ line[2] \in {"c", "d", "e"}
     /\ \A i \in 3..(Len(line) - 1) : line[i] \notin {"{", "}"}
    THEN CASE line[2] = "c" ->
                [type |-> "chunk", content |-> SubSeq(line, 3, Len(line) - 1)]
           [] line[2] = "d" -> [type |-> "done", content |-> EmptyString]
           [] line[2] = "e" -> [type |-> "error", content |-> EmptyString]
    ELSE NoData

\* [...prev.slice(0, -1), message]
ReplaceLast(prev, message) == Append(SubSeq(prev, 1, Len(prev) - 1), message)

\* The body of processStreamedResponse's for loop, for one parsed line.
\* `st` holds the local assistantMessage and the messages state.
ApplyData(st, data) ==
  CASE data.type = "chunk" ->
         [assistant |-> st.assistant \o data.content,
          messages |-> ReplaceLast(st.messages,
                         [role |-> "assistant",
                          content |-> st.assistant \o data.content])]
    [] data.type = "error" ->
         [assistant |-> st.assistant,
          messages |-> ReplaceLast(st.messages,
                         [role |-> "assistant",
                          content |-> ErrorText("Streaming error")])]
    [] OTHER -> st

RECURSIVE ApplyLines(_, _)
\* The for loop over the lines of one read.
ApplyLines(st, lines) ==
  IF lines = <<>> THEN st
  ELSE ApplyLines(ApplyData(st, ParseLine(Head(lines))), Tail(lines))

\* One pass of the while loop on the value a read returned.
ProcessRead(st, value) == ApplyLines(st, NonEmptyLines(SplitLines(value, <<>>)))

\* `if (!threadId)` after startNewConversation returned.
CreationFailedNever(threadId) == FALSE

CreationFailed(threadId) == threadId = NoThread

\* The user types into the input field, which is disabled while loading.
TypeIn ==
  /\ ~isLoading
  /\ input = EmptyString
  /\ input' = Hello
  /\ UNCHANGED <<serverVars, messages, isLoading, currentThreadId, submitPc,
                 submitThread, assistantMessage, body, wire, posted>>

\* handleSubmit from `const userMessage` to the fetch of the turn.
SendTurn(s, threadId) ==
  /\ messages' = Append(messages, [role |-> "user", content |-> Hello])
  /\ input' = EmptyString
  /\ isLoading' = TRUE
  /\ posted' = Append(posted, threadId)
  /\ submitPc' = [submitPc EXCEPT ![s] = "posting"]

\* The form is submitted: handleSubmit up to its first await.
HandleSubmit(s) ==
  /\ submitPc[s] = "idle"
  /\ \A q \in Submits : q < s => submitPc[q] # "idle"
  /\ input # EmptyString
  /\ ~isLoading
  /\ submitThread' = [submitThread EXCEPT ![s] = currentThreadId]
  /\ IF currentThreadId = NoThread
       THEN /\ submitPc' = [submitPc EXCEPT ![s] = "creating"]
            /\ UNCHANGED <<messages, input, isLoading, posted>>
       ELSE SendTurn(s, currentThreadId)
  /\ UNCHANGED <<serverVars, currentThreadId, assistantMessage, body, wire>>

\* startNewConversation's fetch settles: it rejects (or the body is not
\* JSON), or the response is the created thread's, or an error's.
NewConversationAnswers(s) ==
  /\ submitPc[s] = "creating"
  /\ \/ /\ submitPc' = [submitPc EXCEPT ![s] = "done"]
        /\ UNCHANGED <<messages, currentThreadId, submitThread>>
     \/ \E threadId \in {s, NoThread} :
          /\ currentThreadId' = threadId
          /\ messages' = <<>>
          /\ submitThread' = [submitThread EXCEPT ![s] = threadId]
          /\ submitPc' = [submitPc EXCEPT ![s] = "listing"]
  /\ UNCHANGED <<serverVars, input, isLoading, assistantMessage, body, wire, posted>>

\* startNewConversation's `await loadThreads()` settles and it returns
\* data.threadId to handleSubmit.
NewConversationReturns(s) ==
  /\ submitPc[s] = "listing"
  /\ IF CreationFailed(submitThread[s])
       THEN /\ submitPc' = [submitPc EXCEPT ![s] = "done"]
            /\ UNCHANGED <<messages, input, isLoading, posted>>
       ELSE SendTurn(s, submitThread[s])
  /\ UNCHANGED <<serverVars, currentThreadId, submitThread, assistantMessage, body,
                 wire>>

\* The fetch of the turn settles: it rejects or the response is not ok, and
\* the catch and finally blocks run; or processStreamedResponse begins.
TurnAnswers(s) ==
  /\ submitPc[s] = "posting"
  /\ \/ /\ messages' = Append(messages, SorryMessage)
        /\ isLoading' = FALSE
        /\ submitPc' = [submitPc EXCEPT ![s] = "done"]
        /\ UNCHANGED <<assistantMessage, body, wire>>
     \/ \E fs \in Bodies(submitThread[s]) :
          /\ messages' = Append(messages, [role |-> "assistant", content |-> EmptyString])
          /\ assistantMessage' = [assistantMessage EXCEPT ![s] = EmptyString]
          /\ body' = [body EXCEPT ![s] = fs]
          /\ wire' = [wire EXCEPT ![s] = Bytes(fs)]
          /\ submitPc' = [submitPc EXCEPT ![s] = "reading"]
          /\ UNCHANGED isLoading
  /\ UNCHANGED <<serverVars, input, currentThreadId, submitThread, posted>>

\* `await reader.read()` settles: with the next bytes of the body, however
\* many the transport delivers at once, or with done.
Read(s) ==
  /\ submitPc[s] = "reading"
  /\ IF wire[s] = <<>>
       THEN /\ isLoading' = FALSE
            /\ submitPc' = [submitPc EXCEPT ![s] = "done"]
            /\ UNCHANGED <<messages, assistantMessage, wire>>
       ELSE \E n \in 1..Len(wire[s]) :
              LET st == ProcessRead([assistant |-> assistantMessage[s],
                                     messages |-> messages],
                                    SubSeq(wire[s], 1, n))
              IN /\ assistantMessage' = [assistantMessage EXCEPT ![s] = st.assistant]
                 /\ messages' = st.messages
                 /\ wire' = [wire EXCEPT ![s] = SubSeq(wire[s], n + 1, Len(wire[s]))]
                 /\ UNCHANGED <<isLoading, submitPc>>
  /\ UNCHANGED <<serverVars, input, currentThreadId, submitThread, body, posted>>

\* loadThread: a thread of the sidebar is clicked and its fetch settles.
LoadThread(threadId) ==
  /\ messages' = EarlierMessages
  /\ currentThreadId' = threadId
  /\ UNCHANGED <<serverVars, input, isLoading, submitPc, submitThread,
                 assistantMessage, body, wire, posted>>

NextClient ==
  \/ TypeIn
  \/ \E s \in Submits : HandleSubmit(s)
  \/ \E s \in Submits : NewConversationAnswers(s)
  \/ \E s \in Submits : NewConversationReturns(s)
  \/ \E s \in Submits : TurnAnswers(s)
  \/ \E s \in Submits : Read(s)
  \/ \E threadId \in EarlierThreads : LoadThread(threadId)

SpecClient == Init /\ [][NextClient]_vars

(* ------------------------------- claims -------------------------------- *)

\* POST /chat with a body that parses and newConversation not set.
IsTurn(r) == req[r].route = "chat" /\ req[r].bodyOk /\ ~req[r].newConversation

\* A turn submission with a non-empty message and a threadId.
IsValidTurn(r) ==
  /\ IsTurn(r)
  /\ req[r].message \notin {Undefined, EmptyString}
  /\ req[r].threadId # NoThread

IsTerminal(f) == f.type \in {"done", "error"}

Terminals(fs) == {i \in 1..Len(fs) : IsTerminal(fs[i])}

\* The stream holds exactly one terminal frame, and it is the last frame.
EndsInOneTerminal(fs) ==
  /\ Cardinality(Terminals(fs)) = 1
  /\ IsTerminal(fs[Len(fs)])

\* The handler invocation and its relay task have come to their end.
Finished(r) == pc[r] \in {"done", "fault", "closed", "unhandled"}

\* C1 as stated: every turn submission with a non-empty message and a
\* threadId that has been answered ends with a response stream holding
\* exactly one terminal frame, as its last frame.
C1_EveryValidTurnEndsInOneTerminal ==
  \A r \in Reqs :
    (IsValidTurn(r) /\ Finished(r) /\ resp[r].kind # "none") => EndsInOneTerminal(frames[r])

\* C1 amended: a turn submission with a non-empty message and a threadId is
\* answered either with HTTP 500 JSON and no frame, or with a stream; a
\* stream never holds more than one terminal frame and no frame follows it;
\* a stream the relay task closes holds exactly one terminal frame, its last
\* frame, and the relay task ends without closing only when the client has gone.
C1_StreamTerminal ==
  \A r \in Reqs :
    /\ Cardinality(Terminals(frames[r])) <= 1
    /\ Terminals(frames[r]) \subseteq {Len(frames[r])}
    /\ frames[r] # <<>> => (IsValidTurn(r) /\ resp[r].kind = "stream")
    /\ (IsValidTurn(r) /\ pc[r] = "done") =>
         (resp[r].kind = "json" /\ resp[r].status = 500 /\ frames[r] = <<>>)
    /\ pc[r] = "closed" => EndsInOneTerminal(frames[r])
    /\ (pc[r] = "unhandled" /\ streamed[r]) => ~connected[r]

\* C1 witness: a relay task has closed a stream of two chunks and a done frame.
C1_Witness ==
  \E r \in Reqs :
    /\ IsValidTurn(r) /\ pc[r] = "closed"
    /\ Len(frames[r]) = 3 /\ frames[r][3].type = "done"

\* While a turn submission that fails validation is being handled, nothing
\* is written to the Session Store and no provider client is constructed.
NoEffectWhile(P(_)) ==
  \A r \in Reqs :
    (P(r) /\ InFlight(r)) => (threads' = threads /\ nextThreadId' = nextThreadId
                               /\ providerCache' = providerCache)

IsInvalidTurn(r) ==
  /\ IsTurn(r)
  /\ \/ req[r].message \in {Undefined, EmptyString}
     \/ req[r].threadId = NoThread

\* C2: a turn submission whose message is absent or empty, or whose threadId
\* is absent, is answered 400 with a JSON {error} body; no model is
\* resolved, agent.stream is not called, nothing is appended to the Session
\* Store and no frame is emitted.
C2_InvalidTurnAnswered400 ==
  /\ [](\A r \in Reqs :
          IsInvalidTurn(r) =>
            /\ resolved[r] = "no"
            /\ ~streamed[r]
            /\ frames[r] = <<>> /\ upstream[r] = <<>>
            /\ pc[r] \in {"init", "body", "done", "fault"}
            /\ pc[r] = "done" =>
                 /\ resp[r].status = 400 /\ resp[r].kind = "json"
                 /\ resp[r].error \in {"Message is required", "Thread ID is required"})
  /\ [][NoEffectWhile(IsInvalidTurn)]_vars

\* C2 witness: a turn with a message and no threadId has been answered 400.
C2_Witness ==
  \E r \in Reqs :
    /\ IsTurn(r) /\ req[r].message = Hello /\ req[r].threadId = NoThread
    /\ pc[r] = "done" /\ resp[r].status = 400

\* A turn submission that passes validation with a modelId matching no
\* provider-family prefix.
IsUnknownModelTurn(r) == IsValidTurn(r) /\ InferProvider(ModelOf(r)) = NoValue

\* The thread of r holds the user message r submitted.
UserTurnInThread(r) ==
  /\ req[r].threadId \in DOMAIN threads
  /\ \E i \in 1..Len(threads[req[r].threadId].messages) :
       threads[req[r].threadId].messages[i] = Message("user", req[r].message)

ThreadMessages(r) == queryMessages(threads, req[r].threadId)

C4_StepOrder(r) ==
  /\ (resolved[r] = "no" /\ resolved'[r] # "no") =>
       /\ req[r].message \notin {Undefined, EmptyString} /\ req[r].threadId # NoThread
       /\ threads' = threads
       /\ frames[r] = <<>>
  /\ (pc[r] = "streamStart" /\ pc'[r] = "read") =>
       /\ resolved[r] \in Families
       /\ frames[r] = <<>>
       /\ queryMessages(threads', req[r].threadId) =
            Append(ThreadMessages(r), Message("user", req[r].message))
  /\ frames'[r] # frames[r] =>
       /\ resolved[r] \in Families /\ resp[r].kind = "stream"
       /\ UserTurnInThread(r)
       /\ threads' = threads
  /\ (pc[r] = "read" /\ threads' # threads) =>
       /\ Terminals(frames[r]) = {}
       /\ pc'[r] = "writeDone"
       /\ queryMessages(threads', req[r].threadId) =
            Append(ThreadMessages(r), Message("assistant", Concat(upstream[r])))
  /\ (frames'[r] # frames[r] /\ frames'[r][Len(frames'[r])].type = "done") =>
       (pc[r] = "writeDone" /\ pc'[r] = "closed")
  /\ (pc[r] = "writeError" /\ frames'[r] # frames[r]) =>
       (frames'[r][Len(frames'[r])].type = "error" /\ pc'[r] = "closed")

HasChunk(fs) == \E i \in 1..Len(fs) : fs[i].type = "chunk"

\* C5: whenever a chunk frame has been written to the response stream of a
\* turn, the user's message of that turn is recorded in the Session Store.
C5_UserTurnBeforeFirstChunk ==
  \A r \in Reqs :
    (streamed[r] /\ (HasChunk(frames[r]) \/ pc[r] = "writeChunk")) => UserTurnInThread(r)

\* C5 witness: one chunk frame is out, the relay is reading on, and the
\* thread ends with the user's message.
C5_Witness ==
  \E r \in Reqs :
    /\ pc[r] = "read" /\ Len(frames[r]) = 1 /\ frames[r][1].type = "chunk"
    /\ req[r].threadId \in ThreadIds
    /\ ThreadMessages(r) = <<Message("user", Hello)>>

\* The contents of the chunk frames of a stream, in order.
ChunkContents(fs) ==
  LET idx == {i \in 1..Len(fs) : fs[i].type = "chunk"}
      nth(k) == CHOOSE i \in idx : Cardinality({j \in idx : j <= i}) = k
  IN [k \in 1..Cardinality(idx) |-> fs[nth(k)].content]

\* C6: the chunk frames emitted so far carry, in order, a prefix of the
\* fragments read from upstream; at most one fragment has been read and not
\* yet written; once the done frame is out they carry every fragment read.
C6_ChunksArePrefixOfUpstream ==
  \A r \in Reqs :
    streamed[r] =>
      /\ IsPrefix(ChunkContents(frames[r]), upstream[r])
      /\ Len(upstream[r]) - Len(ChunkContents(frames[r])) <= 1
      /\ (frames[r] # <<>> /\ frames[r][Len(frames[r])].type = "done") =>
           ChunkContents(frames[r]) = upstream[r]

\* C6 witness: two different fragments were read and relayed, then done.
C6_Witness ==
  \E r \in Reqs :
    /\ streamed[r] /\ pc[r] = "closed"
    /\ upstream[r] = <<FragmentAt(1), FragmentAt(2)>>
    /\ frames[r][3].type = "done"

\* g fetched thread t and got it; s is a closed stream of a turn "hello" on t
\* that ended in done, and the only stream of a turn on t.
C7_Scenario(s, g) ==
  /\ s < g
  /\ req[g].route = "threads" /\ req[g].method = "GET" /\ req[g].threadId # NoThread
  /\ pc[g] = "done" /\ resp[g].status = 200 /\ resp[g].threadId = req[g].threadId
  /\ IsValidTurn(s) /\ req[s].threadId = req[g].threadId /\ req[s].message = Hello
  /\ pc[s] = "closed" /\ frames[s][Len(frames[s])].type = "done"
  /\ \A q \in Reqs \ {s} : ~(IsValidTurn(q) /\ req[q].threadId = req[g].threadId
                             /\ resp[q].kind = "stream")

\* C7: after one turn "hello" on a thread has streamed to completion, the
\* stream is chunk frames followed by one done frame carrying the threadId,
\* and fetching the thread returns exactly the user message "hello" followed
\* by an assistant message that is the concatenation of the chunk contents.
C7_HelloScenario ==
  \A s, g \in Reqs :
    C7_Scenario(s, g) =>
      /\ \A i \in 1..(Len(frames[s]) - 1) : frames[s][i].type = "chunk"
      /\ frames[s][Len(frames[s])].threadId = req[s].threadId
      /\ resp[g].messages =
           << [role |-> "user", content |-> Hello],
              [role |-> "assistant", content |-> Concat(ChunkContents(frames[s]))] >>

\* C7 witness: the scenario with a reply of two chunks, fetched as "abc".
C7_Witness ==
  \E s, g \in Reqs :
    /\ C7_Scenario(s, g)
    /\ req[s].threadId \in ThreadIds
    /\ Len(frames[s]) = 3
    /\ resp[g].messages[2].content = <<"a", "b", "c">>

\* C8: a relay task that closed its stream after the upstream failed (no
\* assistant message was recorded for the turn: the thread still ends with
\* the user's message) wrote one chunk frame for every fragment read, then
\* one error frame and no done frame; and a closed stream that ends in an
\* error frame belongs to a turn with no assistant message recorded.
C8_UpstreamFailure ==
  \A r \in Reqs :
    (streamed[r] /\ pc[r] = "closed") =>
      LET last == frames[r][Len(frames[r])]
          failed == /\ ThreadMessages(r) # <<>>
                    /\ ThreadMessages(r)[Len(ThreadMessages(r))] =
                         Message("user", req[r].message)
      IN /\ frames[r] # <<>>
         /\ failed <=> last.type = "error"
         /\ failed =>
              /\ \A i \in 1..(Len(frames[r]) - 1) : frames[r][i].type = "chunk"
              /\ ChunkContents(frames[r]) = upstream[r]

\* C8 witness: the upstream failed after one fragment was relayed.
C8_Witness ==
  \E r \in Reqs :
    /\ streamed[r] /\ pc[r] = "closed"
    /\ req[r].threadId \in ThreadIds
    /\ Len(frames[r]) = 2 /\ frames[r][1].type = "chunk" /\ frames[r][2].type = "error"

\* C9 as stated: every request that has ended was given a Response by its
\* handler; none ended by the handler's promise being rejected.
C9_EveryErrorCaught == \A r \in Reqs : pc[r] # "fault"

\* C10 as stated: when a write to the response stream fails, the relay
\* task still ends without a rejection that nothing handles.
C10_WriteFailureContained == \A r \in Reqs : pc[r] # "unhandled"

\* The number of fragments read from upstream that the response stream has
\* not accepted as a chunk frame.
Undelivered(r) == Len(upstream[r]) - Len(ChunkContents(frames[r]))

\* C11: forwarding is pull-driven. While a turn is streaming, at most one
\* fragment read from upstream has not been accepted by the response stream,
\* and it is the one whose write is pending (or was rejected); the relay
\* reads the next fragment only when every fragment read has been accepted.
C11_PullDriven ==
  /\ [](\A r \in Reqs :
         streamed[r] =>
           /\ Undelivered(r) \in {0, 1}
           /\ pc[r] = "read" => Undelivered(r) = 0
           /\ (Undelivered(r) = 1 /\ connected[r]) => pc[r] = "writeChunk")
  /\ [][\A r \in Reqs :
          (streamed[r] /\ Len(upstream'[r]) > Len(upstream[r])) => Undelivered(r) = 0]_vars

\* C11 witness: the second fragment has been read, after the first was
\* accepted, and its write is pending while the client is still there.
C11_Witness ==
  \E r \in Reqs :
    /\ streamed[r] /\ pc[r] = "writeChunk" /\ connected[r]
    /\ Len(upstream[r]) = 2 /\ Len(ChunkContents(frames[r])) = 1

\* The family the three prefixes gpt-, claude- and gemini- name, or NoValue.
PrefixFamily(modelId) ==
  IF StartsWith(modelId, <<"g", "p", "t", "-">>) THEN "openai"
  ELSE IF StartsWith(modelId, <<"c", "l", "a", "u", "d", "e", "-">>) THEN "anthropic"
  ELSE IF StartsWith(modelId, <<"g", "e", "m", "i", "n", "i", "-">>) THEN "google"
  ELSE NoValue

\* C12 as stated: a resolution that returns a binding binds the identifier to
\* the family of its prefix (gpt- to openai, claude- to anthropic, gemini- to
\* google) whatever follows the prefix, and an identifier with none of these
\* prefixes gets no binding.
C12_BindsByPrefix ==
  \A r \in Reqs :
    pc[r] = "done" =>
      /\ resolved[r] \in Families => resolved[r] = PrefixFamily(req[r].modelId)
      /\ PrefixFamily(req[r].modelId) = NoValue => resolved[r] = "throws"

\* The variables that hold the credential and the base URL of a family.
TokenKeyOf(f) == getGatewayEnvKey(gatewayConfigCache, aiGateway, f, "token")

UrlKeyOf(f) == getGatewayEnvKey(gatewayConfigCache, aiGateway, f, "url")

\* C13 as stated: a turn whose model names a family whose credential or base
\* URL is missing from the environment is not resolved, agent.stream is not
\* called for it and nothing is appended to its thread.
C13_MissingConfigurationStopsTheCall ==
  \A r \in Reqs :
    LET f == InferProvider(ModelOf(r))
    IN (IsValidTurn(r) /\ f # NoValue
          /\ (~getRawEnv(env, TokenKeyOf(f)) \/ ~getRawEnv(env, UrlKeyOf(f)))) =>
         /\ resolved[r] \in {"no", "throws"}
         /\ ~streamed[r]
         /\ ~UserTurnInThread(r)

\* C14 as stated: a turn that failed because the credential of its model's
\* family is missing is answered with an error message that holds the name
\* of the missing variable.
C14_ErrorNamesMissingKey ==
  \A r \in Reqs :
    LET f == InferProvider(ModelOf(r))
    IN (IsValidTurn(r) /\ pc[r] = "done" /\ f # NoValue
          /\ ~getRawEnv(env, TokenKeyOf(f))) =>
         resp[r].error = KeyNotFound(TokenKeyOf(f))

\* C15: for each family at most one provider client is constructed in the
\* life of the process, and the family's variable holds it from then on. A
\* resolution for a family whose client is not yet held constructs it when
\* it succeeds; a resolution for a family whose client is held succeeds with
\* that client, whatever the environment holds, constructs nothing and
\* leaves the gateway configuration cache alone.
C15_OneClientPerFamily ==
  /\ [](\A f \in Families :
         /\ constructed[f] <= 1
         /\ constructed[f] = 1 <=> f \in providerCache
         /\ f \in providerCache =>
              ProviderAvailable(providerCache, {}, gatewayConfigCache, aiGateway, f))
  /\ [][\A r \in Reqs :
          (pc[r] = "idle" /\ pc'[r] = "done") =>
            LET f == InferProvider(req'[r].modelId)
            IN /\ f \in providerCache =>
                    /\ resolved'[r] = f
                    /\ constructed' = constructed
                    /\ providerCache' = providerCache
                    /\ gatewayConfigCache' = gatewayConfigCache
               /\ (f \notin providerCache /\ resolved'[r] # "throws") =>
                    /\ resolved'[r] = f
                    /\ constructed' = [constructed EXCEPT ![f] = 1]
                    /\ providerCache' = providerCache \cup {f}
               /\ resolved'[r] = "throws" =>
                    (constructed' = constructed /\ providerCache' = providerCache)]_vars

\* C15 witness: a family was resolved, then another family, then the first
\* again, and one client of each has been constructed.
C15_Witness ==
  /\ \A r \in 1..3 : pc[r] = "done"
  /\ resolved[1] \in Families /\ resolved[2] \in Families
  /\ resolved[1] # resolved[2] /\ resolved[3] = resolved[1]
  /\ constructed[resolved[1]] = 1 /\ constructed[resolved[2]] = 1

RoleCount(msgs, role, n) == Cardinality({i \in 1..n : msgs[i].role = role})

\* The threads whose message list a step changes.
ChangedThreads ==
  {t \in DOMAIN threads \cap DOMAIN threads' : threads'[t].messages # threads[t].messages}

\* C17: with turn submissions handled concurrently, in every reachable state
\* every assistant message of a thread has a user message of its own before
\* it (among the first n messages there are never more assistant than user
\* messages); and every step that records an assistant message appends it to
\* exactly one thread, the thread of the submission whose relay completed,
\* which already holds that submission's user message.
C17_AssistantAfterItsUser ==
  /\ [](\A t \in DOMAIN threads :
         \A n \in 1..Len(threads[t].messages) :
           RoleCount(threads[t].messages, "assistant", n)
             <= RoleCount(threads[t].messages, "user", n))
  /\ [][/\ \A t \in DOMAIN threads' \ DOMAIN threads :
             \A i \in 1..Len(threads'[t].messages) :
               threads'[t].messages[i].role # "assistant"
        /\ \A t \in ChangedThreads :
             /\ Len(threads'[t].messages) = Len(threads[t].messages) + 1
             /\ SubSeq(threads'[t].messages, 1, Len(threads[t].messages))
                  = threads[t].messages
             /\ LET m == threads'[t].messages[Len(threads'[t].messages)]
                IN m.role = "assistant" =>
                     /\ ChangedThreads = {t}
                     /\ \E r \in Reqs :
                          /\ pc[r] = "read" /\ pc'[r] = "writeDone"
                          /\ req[r].threadId = t
                          /\ m = Message("assistant", Concat(upstream[r]))
                          /\ \E i \in 1..Len(threads[t].messages) :
                               threads[t].messages[i] = Message("user", req[r].message)]_vars

\* C17 witness: two submissions to the same thread were handled at the same
\* time; both user messages were recorded before either reply, and both
\* replies are in the thread.
C17_Witness ==
  \E t \in DOMAIN threads, r1, r2 \in Reqs :
    /\ r1 # r2 /\ req[r1].threadId = t /\ req[r2].threadId = t
    /\ pc[r1] = "closed" /\ pc[r2] = "closed"
    /\ Len(threads[t].messages) = 4
    /\ threads[t].messages[1].role = "user" /\ threads[t].messages[2].role = "user"
    /\ threads[t].messages[3].role = "assistant"
    /\ threads[t].messages[4].role = "assistant"

IsNewConversation(r) == req[r].route = "chat" /\ req[r].bodyOk /\ req[r].newConversation

\* C18: the step that answers a new-conversation request either answers 200
\* {success: true, threadId} and has added exactly one thread to the store,
\* the one threadId names: a thread of the given owner ('default-user' when
\* none is given) that records the requested model (gpt-4o-mini when none is
\* given) and the time of its creation and holds no message, every other
\* thread left as it was; or it answers 500 and the store is as it was.
C18_NewConversation ==
  [][\A r \in Reqs :
      (IsNewConversation(r) /\ pc[r] = "creating" /\ pc'[r] = "done") =>
        LET id == resp'[r].threadId
            owner == IF req[r].resourceId = NoValue THEN "default-user" ELSE req[r].resourceId
            model == IF req[r].modelId = Undefined THEN Gpt4oMini ELSE req[r].modelId
        IN IF resp'[r].status = 200
             THEN /\ resp'[r].success /\ resp'[r].kind = "json"
                  /\ id \notin DOMAIN threads
                  /\ DOMAIN threads' = DOMAIN threads \cup {id}
                  /\ \A t \in DOMAIN threads : threads'[t] = threads[t]
                  /\ threads'[id].resourceId = owner
                  /\ threads'[id].modelId = model
                  /\ threads'[id].createdAt = clock' /\ clock' > clock
                  /\ threads'[id].messages = <<>>
             ELSE /\ resp'[r].status = 500 /\ ~resp'[r].success
                  /\ threads' = threads]_vars

\* C18 witness: two new conversations were answered, one for the owner alice
\* and the model claude-3, one with neither owner nor model given.
C18_Witness ==
  \E r \in Reqs, t, u \in DOMAIN threads :
    /\ IsNewConversation(r) /\ pc[r] = "done" /\ resp[r].success /\ resp[r].threadId = t
    /\ threads[t].resourceId = "alice" /\ threads[t].modelId = Claude3
    /\ threads[u].resourceId = "default-user" /\ threads[u].modelId = Gpt4oMini

\* The identifiers the store has assigned and no longer holds: identifiers
\* are assigned in order, so these are the threads that were deleted.
Deleted == (1..(nextThreadId - 1)) \ DOMAIN threads

\* A GET /threads without threadId that was answered 200.
IsListed(r) ==
  /\ req[r].route = "threads" /\ req[r].method = "GET" /\ req[r].threadId = NoThread
  /\ pc[r] = "done" /\ resp[r].status = 200

\* The step by which the handler of request r returns its Response.
Answers(r) == pc[r] = "body" /\ pc'[r] = "done"

\* C19: a delete answered with success leaves the thread out of the store;
\* a deleted identifier never comes back, whatever new conversations, turns
\* on other threads, listings and deletes follow; and no listing answered
\* afterwards holds a deleted identifier.
C19_DeletedStaysOut ==
  /\ [](\A r \in Reqs :
         IsListed(r) =>
           \A i \in 1..Len(resp[r].threads) : resp[r].threads[i] \notin Deleted)
  /\ [][/\ Deleted \subseteq Deleted'
        /\ \A r \in Reqs :
             (Answers(r) /\ req[r].route = "threads" /\ req[r].method = "DELETE"
                /\ resp'[r].success) =>
               /\ req[r].threadId \notin DOMAIN threads'
               /\ \A o \in {"default-user", "alice"} :
                    \A i \in 1..Len(getThreadsByResourceId(threads', o)) :
                      getThreadsByResourceId(threads', o)[i] # req[r].threadId]_vars

\* C19 witness: thread 1 was deleted, a new conversation was started, and a
\* listing for the owner was answered with other threads.
C19_Witness ==
  \E r \in Reqs :
    /\ IsListed(r) /\ req[r].resourceId = NoValue
    /\ 1 \in Deleted
    /\ Len(resp[r].threads) = 3
    /\ nextThreadId = 5

\* The elements of a sequence.
Range(q) == {q[i] : i \in 1..Len(q)}

\* C20: a listing answered for an owner holds every thread of that owner and
\* no other, each once, ordered by updatedAt descending; and the step that
\* records a turn in a thread makes it the first of its owner's listing.
C20_ListedByUpdatedAt ==
  /\ [](\A r \in Reqs :
         IsListed(r) =>
           LET q == resp[r].threads
               owner == IF req[r].resourceId = NoValue THEN "default-user"
                        ELSE req[r].resourceId
           IN /\ Range(q) = {t \in DOMAIN threads : threads[t].resourceId = owner}
              /\ \A i, j \in 1..Len(q) : i # j => q[i] # q[j]
              /\ \A i, j \in 1..Len(q) :
                   i < j => threads[q[i]].updatedAt > threads[q[j]].updatedAt)
  /\ [][\A t \in DOMAIN threads \cap DOMAIN threads' :
          Len(threads'[t].messages) > Len(threads[t].messages) =>
            getThreadsByResourceId(threads', threads'[t].resourceId)[1] = t]_vars

\* C20 witness: of three threads created one after the other, each followed
\* by a turn, the oldest got a later turn, and the listing answered after it
\* holds the oldest first, then the newest, then the middle one.
C20_Witness ==
  \E r \in Reqs :
    /\ IsListed(r) /\ resp[r].threads = <<1, 3, 2>>
    /\ threads[1].createdAt < threads[2].createdAt
    /\ threads[2].createdAt < threads[3].createdAt
    /\ Len(threads[1].messages) = 4

IsDelete(r) == req[r].route = "threads" /\ req[r].method = "DELETE"

\* C21: the step that answers a DELETE without threadId answers 400 {error}
\* and leaves the Session Store as it was; the step that answers a DELETE
\* with a threadId either answers 200 {success: true} and has removed that
\* thread, its messages with it, and no other, or answers 500 {error} with
\* the store as it was.
C21_Delete ==
  [][\A r \in Reqs :
      (Answers(r) /\ IsDelete(r)) =>
        IF req[r].threadId = NoThread
          THEN /\ resp'[r].status = 400 /\ resp'[r].error = "Thread ID required"
               /\ ~resp'[r].success
               /\ threads' = threads
          ELSE \/ /\ resp'[r].status = 200 /\ resp'[r].success
                  /\ DOMAIN threads' = DOMAIN threads \ {req[r].threadId}
                  /\ \A t \in DOMAIN threads' : threads'[t] = threads[t]
               \/ /\ resp'[r].status = 500 /\ resp'[r].error # NoValue
                  /\ threads' = threads]_vars

\* C21 witness: a thread was deleted, and a DELETE
\* without threadId has been answered 400.
C21_Witness ==
  \E r \in Reqs :
    /\ IsDelete(r) /\ pc[r] = "done" /\ req[r].threadId = NoThread
    /\ resp[r].status = 400
    /\ Deleted # {}

\* A GET /threads?threadId=... that was answered 200.
IsFetched(r) ==
  /\ req[r].route = "threads" /\ req[r].method = "GET" /\ req[r].threadId # NoThread
  /\ pc[r] = "done" /\ resp[r].status = 200

ChunkText(fs) ==
  LET cs == SelectSeq(fs, LAMBDA f : f.type = "chunk")
  IN Concat([i \in 1..Len(cs) |-> cs[i].content])

\* C23: when processStreamedResponse has read a response body to its end,
\* the assistant text it holds is the concatenation, in order, of the
\* contents of the chunk frames the body carries, however the bytes of the
\* body were cut into reads.
C23_ReassembledWhateverTheReads ==
  \A s \in Submits :
    (submitPc[s] = "done" /\ body[s] # <<>>) => assistantMessage[s] = ChunkText(body[s])

\* A handleSubmit that passed its guard and has not returned.
Submitting(s) == submitPc[s] \notin {"idle", "done"}

\* C24: the client never has two turn submissions in flight, the time a
\* submission awaits the creation of its thread included.
C24_OneSubmissionInFlight == Cardinality({s \in Submits : Submitting(s)}) <= 1

\* C25: every turn request the client sent carries a thread id. A submission
\* made while no thread is current sends nothing and adds no message before
\* startNewConversation has settled; while it has no identifier (the creation
\* failed, or answered none) it sends no turn and adds no message; and the
\* turn it sends after a creation carries the identifier the creation gave.
C25_NoTurnWithoutThread ==
  /\ [](\A i \in 1..Len(posted) : posted[i] # NoThread)
  /\ [][\A s \in Submits :
          /\ (submitPc[s] = "idle" /\ submitPc'[s] # "idle" /\ currentThreadId = NoThread)
               => /\ submitPc'[s] = "creating"
                  /\ posted' = posted
                  /\ messages' = messages
          /\ (submitPc[s] \in {"creating", "listing"} /\ submitPc'[s] # submitPc[s]
                /\ submitThread'[s] = NoThread)
               => /\ submitPc'[s] \in {"listing", "done"}
                  /\ posted' = posted
                  /\ messages' \in {messages, <<>>}
          /\ (submitPc[s] = "listing" /\ submitPc'[s] = "posting")
               => /\ submitThread[s] # NoThread
                  /\ posted' = Append(posted, submitThread[s])]_vars

\* C25 witness: one submission returned after a creation that gave no
\* identifier, having sent nothing; the other created its thread and sent
\* its turn on it.
C25_Witness ==
  \E s, q \in Submits :
    /\ submitPc[s] = "done" /\ submitThread[s] = NoThread
    /\ submitPc[q] = "posting" /\ submitThread[q] = q
    /\ posted = <<q>>
    /\ messages = <<[role |-> "user", content |-> Hello]>>

\* C26: a chunk or error frame of a stream replaces the assistant message
\* that stream appended and has written so far, and no other message on
\* display: not a user message, not a message of a thread that loadThread
\* loaded while the stream was read.
C26_FramesTouchTheirPlaceholder ==
  [][\A s \in Submits :
       (submitPc[s] = "reading" /\ wire'[s] # wire[s] /\ messages' # messages)
         => /\ messages # <<>>
            /\ messages[Len(messages)] =
                 [role |-> "assistant", content |-> assistantMessage[s]]
            /\ Len(messages') = Len(messages)
            /\ \A i \in 1..(Len(messages) - 1) : messages'[i] = messages[i]]_vars

\* A handler invocation whose `await initializeStorage()` has settled.
PastInit(r) == pc[r] \notin {"idle", "init"}

\* C27: storage.init() is called once, by the first request, however many
\* requests arrive and however their handlers interleave; the promise of
\* that call settles once; and every handler that has awaited it went on
\* when it was fulfilled and was rejected when it was rejected.
C27_OneInitForAll ==
  /\ [](initCalls = IF \E r \in Reqs : pc[r] # "idle" THEN 1 ELSE 0)
  /\ [](\A r \in Reqs :
          PastInit(r) => /\ initPromise \in {"fulfilled", "rejected"}
                         /\ pc[r] = "fault" <=> initPromise = "rejected")
  /\ [][(initPromise \in {"fulfilled", "rejected"}) => initPromise' = initPromise]_vars

\* C27 witness: three requests arrived before storage.init() settled, it
\* was called once and rejected, and two handlers have awaited it and
\* were rejected while the third has not resumed yet.
C27_Witness ==
  /\ initCalls = 1
  /\ initPromise = "rejected"
  /\ \E r \in Reqs :
       /\ pc[r] = "init"
       /\ \A q \in Reqs \ {r} : pc[q] = "fault"

\* C28: a /chat request with newConversation true only creates a thread,
\* whatever message, threadId and modelId it also carries: no model is
\* resolved and no client constructed, agent.stream is not called, nothing
\* is read or relayed, no stored thread is changed and the thread added
\* holds no message, and the response is JSON, not a stream.
C28_NewConversationOnlyCreates ==
  /\ [](\A r \in Reqs :
          IsNewConversation(r) =>
            /\ resolved[r] = "no" /\ ~streamed[r]
            /\ upstream[r] = <<>> /\ frames[r] = <<>>
            /\ resp[r].kind \in {"none", "json"})
  /\ [][\A r \in Reqs :
          (IsNewConversation(r) /\ pc'[r] # pc[r]) =>
            /\ UNCHANGED modelVars
            /\ \A t \in DOMAIN threads : t \in DOMAIN threads' /\ threads'[t] = threads[t]
            /\ \A t \in DOMAIN threads' \ DOMAIN threads : threads'[t].messages = <<>>
            /\ pc'[r] = "done" => resp'[r].kind = "json"]_vars

\* C28 witness: a new-conversation request that carried a message, the
\* threadId of a stored thread with messages and a model that cannot be
\* resolved was answered with the JSON of a new, empty thread.
C28_Witness ==
  \E r \in Reqs :
    /\ IsNewConversation(r) /\ pc[r] = "done"
    /\ req[r].message = Hello /\ req[r].modelId = Llama
    /\ req[r].threadId \in DOMAIN threads
    /\ threads[req[r].threadId].messages # <<>>
    /\ resp[r].status = 200 /\ resp[r].kind = "json" /\ resp[r].success
    /\ resp[r].threadId # req[r].threadId
    /\ threads[resp[r].threadId].messages = <<>>

\* The name C29 states for a family's variable: the one AI_GATEWAY gives
\* when it parses and names one, the family's default name otherwise.
StatedKey(f, field) ==
  LET named == IF field = "token" THEN aiGateway.tokenVar[f] ELSE aiGateway.urlVar[f]
  IN IF aiGateway.kind = "json" /\ named # NoValue
       THEN named
       ELSE IF field = "token" THEN getDefaultTokenKey(f) ELSE getDefaultUrlKey(f)

Resolves(r) == pc[r] = "idle" /\ pc'[r] = "done"

\* C30: a resolution that fails leaves the provider variables and the count
\* of constructed clients as they were; and a resolution for a family whose
\* client is not constructed, made when the family's credential is in the
\* environment, succeeds and constructs the client, whatever resolutions
\* failed before the credential was placed. So a family that failed once
\* and succeeded since has exactly one client.
C30_FailureCachesNoClient ==
  /\ [][\A r \in Reqs :
          Resolves(r) =>
            LET f == InferProvider(req'[r].modelId)
            IN /\ resolved'[r] = "throws" =>
                    providerCache' = providerCache /\ constructed' = constructed
               /\ (f # NoValue /\ f \notin providerCache /\ TokenKeyOf(f) \in env) =>
                    /\ resolved'[r] = f
                    /\ providerCache' = providerCache \cup {f}
                    /\ constructed' = [constructed EXCEPT ![f] = @ + 1]]_vars
  /\ [](\A r, q \in Reqs :
          (/\ r < q /\ pc[q] = "done"
           /\ resolved[r] = "throws"
           /\ InferProvider(req[r].modelId) # NoValue
           /\ resolved[q] = InferProvider(req[r].modelId)) =>
            /\ resolved[q] \in providerCache
            /\ constructed[resolved[q]] = 1)

\* C30 witness: a resolution for an OpenAI model failed, the OpenAI
\* credential was placed in the environment, and the next resolution for
\* the same model succeeded and constructed the one OpenAI client.
C30_Witness ==
  \E r, q \in Reqs :
    /\ q = r + 1 /\ pc[q] = "done"
    /\ req[r].modelId = req[q].modelId
    /\ resolved[r] = "throws" /\ resolved[q] = "openai"
    /\ TokenKeyOf("openai") \in env
    /\ "openai" \in providerCache /\ constructed["openai"] = 1

====
